---------------------------- MODULE Spec2Model ----------------------------
(***************************************************************************)
(* A model of the tk-3de4 integration layer (v1.1.0):                      *)
(*   - hooks/tk-multi-workfiles2/scene_operation_tk-3de4.py                *)
(*       SceneOperation.execute, the open/save/reset switch                *)
(*   - hooks/tk-multi-publish2/basic/exportMel.py                          *)
(*       Tde4ExportMelPublishPlugin, validate -> publish -> finalize       *)
(* The host application (tde4) and the file system are state; every hook   *)
(* call is one action that runs the whole handler.                         *)
(***************************************************************************)
EXTENDS Naturals, Integers, Sequences, FiniteSets, TLC

(***************************************************************************)
(* Bounds of the model.                                                    *)
(***************************************************************************)
\* highest version number a work file of the initial disk may carry
MaxVersion == 3

\* highest version number of the work files the scene operations are given
MaxSceneVersion == 1

\* answers the artist has ready for the save prompts of one "open"
MaxDialogs == 2

(***************************************************************************)
(* Paths.  A path is a directory and a file name; a file name is the       *)
(* sequence of its "."-separated pieces.  A piece is plain text (pad = 0)  *)
(* or carries a version number written with pad digits: "v001" is          *)
(* [s |-> "", sep |-> "", v |-> 1, pad |-> 3] and "shot_v001" is           *)
(* [s |-> "shot", sep |-> "_", v |-> 1, pad |-> 3].                        *)
(* Paths are absolute and already in the form ShotgunPath.normalize and    *)
(* os.path.abspath return (one separator, none trailing), and no folder    *)
(* name holds a ".".                                                       *)
(***************************************************************************)
Plain(t) == [s |-> t, sep |-> "", v |-> 0, pad |-> 0]

VerPiece(stem, sep, v, pad) == [s |-> stem, sep |-> sep, v |-> v, pad |-> pad]

Dir(root, v) == [root |-> root, ver |-> v]

NoDir == Dir("", 0)

WorkDir == Dir("work", 0)

ShotDir == Dir("shots", 0)

MkPath(d, n) == [dir |-> d, name |-> n]

\* Python's None (or the empty string): `not path` is true of it
NoPath == MkPath(NoDir, <<>>)

\* os.path.dirname(path)
DirName(p) == p.dir

\* path + ".mel"
AddExt(p, e) == MkPath(p.dir, Append(p.name, Plain(e)))

(***************************************************************************)
(* The host application and the disk.                                      *)
(*   projectPath  tde4.getProjectPath(): NoPath while never saved          *)
(*   upToDate     tde4.isProjectUpToDate()                                 *)
(*   files, dirs  the files and directories that exist on disk             *)
(*   registered   the paths sgtk.util.register_publish has registered      *)
(***************************************************************************)
VARIABLES projectPath, upToDate, files, dirs, registered

hostVars == <<projectPath, upToDate, files, dirs, registered>>

HostState == [projectPath |-> projectPath, upToDate |-> upToDate,
              files |-> files, dirs |-> dirs, registered |-> registered]

\* one call into the host, the OS or the platform, as the handlers issue them
Cmd(c, p) == [call |-> c, arg |-> p, to |-> NoPath]

\* a call with two paths: shutil.move(src, dst)
Cmd2(c, p, q) == [call |-> c, arg |-> p, to |-> q]

\* calls recorded as leaving by an exception
RaisingCalls == {"exportRaise", "registerRaise", "makedirsRaise", "moveRaise"}

\* whether the call can succeed in host state h
CmdOk(h, c) ==
    CASE c.call = "saveProject" -> c.arg # NoPath /\ DirName(c.arg) \in h.dirs
      [] c.call = "loadProject" -> c.arg \in h.files
      [] c.call = "move" -> c.arg \in h.files
      [] c.call \in RaisingCalls -> FALSE
      [] OTHER -> TRUE

\* the host state after call c
HostStep(h, c) ==
    CASE c.call = "makedirs" ->
            [h EXCEPT !.dirs = h.dirs \cup {DirName(c.arg)}]
      [] c.call = "saveProject" /\ CmdOk(h, c) ->
            [h EXCEPT !.projectPath = c.arg, !.upToDate = TRUE,
                      !.files = h.files \cup {c.arg}]
      [] c.call = "loadProject" /\ CmdOk(h, c) ->
            [h EXCEPT !.projectPath = c.arg, !.upToDate = TRUE]
      [] c.call = "newProject" ->
            [h EXCEPT !.projectPath = NoPath, !.upToDate = TRUE]
      [] c.call = "export" ->
            [h EXCEPT !.files = h.files \cup {AddExt(c.arg, "mel")}]
      [] c.call = "move" /\ CmdOk(h, c) ->
            [h EXCEPT !.files = (h.files \ {c.arg}) \cup {c.to}]
      [] c.call = "register" ->
            [h EXCEPT !.registered = h.registered \cup {c.arg}]
      [] OTHER -> h

RECURSIVE HostRun(_, _)
\* the host state after the calls of cmds, in order
HostRun(h, cmds) ==
    IF cmds = <<>> THEN h ELSE HostRun(HostStep(h, Head(cmds)), Tail(cmds))

RECURSIVE HostTrace(_, _)
\* the calls of cmds, each with whether it succeeded when it was issued
HostTrace(h, cmds) ==
    IF cmds = <<>> THEN <<>>
    ELSE <<[call |-> Head(cmds).call, arg |-> Head(cmds).arg,
            to |-> Head(cmds).to, ok |-> CmdOk(h, Head(cmds))]>>
         \o HostTrace(HostStep(h, Head(cmds)), Tail(cmds))

(***************************************************************************)
(* SceneOperation.execute (scene_operation_tk-3de4.py).                    *)
(*   sOp, sArg   the operation and file_path of the last call              *)
(*   sRet        what it returned                                          *)
(*   sCalls      the host and OS calls it made, in order                   *)
(*   sPre        the host state it was called in                           *)
(*   sAns        the answer to its save prompt, "" if it showed none        *)
(***************************************************************************)
VARIABLES sOp, sArg, sRet, sCalls, sPre, sAns

sceneVars == <<sOp, sArg, sRet, sCalls, sPre, sAns>>

\* the publish plugin's variables, described with the plugin below
VARIABLES pPhase, pHook, pRaised, pRet, pLog, pBase, pCalls, pPre, pSaveArg,
          itemPath, button, runs

\* accept's variables and the history of the platform's current run
VARIABLES accRet, accTemplate, accPreAllowed, contextChangeAllowed, runHist

accVars == <<accRet, accTemplate, accPreAllowed, contextChangeAllowed>>

pubVars == <<pPhase, pHook, pRaised, pRet, pLog, pBase, pCalls, pPre,
             pSaveArg, itemPath, button, runs, accVars, runHist>>

\* the engine's variables, described with the engine below
VARIABLES eOp, eRet, eMenuRet, eCalls, eOut, eIn, eDirs, eFiles, ePre,
          menuDirEnv

engineVars == <<eOp, eRet, eMenuRet, eCalls, eOut, eIn, eDirs, eFiles, ePre,
                menuDirEnv>>

RetNone == [kind |-> "None", bool |-> FALSE, path |-> NoPath]

RetBool(x) == [kind |-> "Bool", bool |-> x, path |-> NoPath]

RetPath(x) == [kind |-> "Path", bool |-> FALSE, path |-> x]

\* the call did not return: an exception left it
RetRaise == [kind |-> "Raise", bool |-> FALSE, path |-> NoPath]

\* the call did not return: it is still in its loop, waiting for an answer
RetLoop == [kind |-> "Loop", bool |-> FALSE, path |-> NoPath]

Answers == {"Yes", "No", "Cancel"}

\* the file_path arguments the platform passes: work files of two folders
ScenePaths ==
    { MkPath(WorkDir, <<VerPiece("shot", "_", v, 3), Plain("3de")>>) :
        v \in 1..MaxSceneVersion }
    \cup { MkPath(ShotDir, <<VerPiece("shot", "_", 1, 3), Plain("3de")>>) }

Run(cmds, ret) == [cmds |-> cmds, ret |-> ret]

\* the button pressed in the calls' question dialog, "" if none was shown
Asked(cmds, ans) ==
    IF \E i \in 1..Len(cmds) : cmds[i].call = "question" THEN ans ELSE ""

\* operation == "current_path"
CurrentPath(h, file_path) == Run(<<>>, RetPath(file_path))

\* QtGui.QMessageBox.question(...)
Question == Cmd("question", NoPath)

\* Open with the Cancel branch written as `break`: the file is loaded anyway
OpenCancelBreaks(h, file_path, answers, saveRaises) ==
    IF h.upToDate THEN Run(<<Cmd("loadProject", file_path)>>, RetNone)
    ELSE CASE Head(answers) \in {"Cancel", "No"} ->
                Run(<<Question, Cmd("loadProject", file_path)>>, RetNone)
           [] OTHER ->
                Run(<<Question, Cmd("saveProject", file_path),
                      Cmd("loadProject", file_path)>>, RetNone)

RECURSIVE OpenLoopStaysDirty(_, _, _, _, _)
\* OpenLoop whose Yes branch saves but does not clear dirty
OpenLoopStaysDirty(dirty, file_path, answers, saveRaises, cmds) ==
    IF dirty # 1 THEN Run(cmds \o <<Cmd("loadProject", file_path)>>, RetNone)
    ELSE IF answers = <<>> THEN Run(cmds, RetLoop)
    ELSE CASE Head(answers) = "Cancel" ->
                Run(cmds \o <<Question>>, RetBool(FALSE))
           [] Head(answers) = "No" ->
                Run(cmds \o <<Question, Cmd("loadProject", file_path)>>, RetNone)
           [] OTHER ->
                OpenLoopStaysDirty(1, file_path, Tail(answers), saveRaises,
                    cmds \o <<Question, Cmd("saveProject", file_path)>>)

RECURSIVE OpenLoop(_, _, _, _, _)
\* while dirty == 1: ask; Cancel returns False, No breaks, anything else
\* saves and sets dirty = 0.  tde4.loadProject(file_path) follows the loop.
\* answers: the buttons the artist presses, in order; cmds: the calls so far;
\* saveRaises: the host's saveProject leaves by an exception.
OpenLoop(dirty, file_path, answers, saveRaises, cmds) ==
    IF dirty # 1 THEN Run(cmds \o <<Cmd("loadProject", file_path)>>, RetNone)
    ELSE IF answers = <<>> THEN Run(cmds, RetLoop)
    ELSE CASE Head(answers) = "Cancel" ->
                Run(cmds \o <<Question>>, RetBool(FALSE))
           [] Head(answers) = "No" ->
                Run(cmds \o <<Question, Cmd("loadProject", file_path)>>, RetNone)
           [] OTHER ->
                IF saveRaises
                THEN Run(cmds \o <<Question, Cmd("saveProject", file_path)>>,
                         RetRaise)
                ELSE OpenLoop(0, file_path, Tail(answers), saveRaises,
                         cmds \o <<Question, Cmd("saveProject", file_path)>>)

\* operation == "open": dirty is 1 when the project is not up to date
Open(h, file_path, answers, saveRaises) ==
    OpenLoop(IF h.upToDate THEN 0 ELSE 1, file_path, answers, saveRaises, <<>>)

\* EnsureDir without the os.makedirs call
EnsureDirSkipped(h, file_path) == <<>>

\* if not os.path.exists(os.path.dirname(file_path)): os.makedirs(...)
EnsureDir(h, file_path) ==
    IF DirName(file_path) \notin h.dirs
    THEN <<Cmd("makedirs", file_path)>> ELSE <<>>

\* operation == "save"
Save(h, file_path) ==
    Run(EnsureDir(h, file_path) \o <<Cmd("saveProject", file_path)>>, RetNone)

\* operation == "save_as"
SaveAs(h, file_path) ==
    Run(EnsureDir(h, file_path) \o <<Cmd("saveProject", file_path)>>, RetNone)

\* operation == "prepare_new"
PrepareNew(h) == Run(<<Cmd("newProject", NoPath)>>, RetBool(TRUE))

\* Reset whose Cancel branch reports True although nothing was reset
ResetCancelTrue(h, file_path, ans, saveRaises) ==
    IF h.upToDate THEN Run(<<Cmd("newProject", NoPath)>>, RetBool(TRUE))
    ELSE CASE ans = "Cancel" -> Run(<<Question>>, RetBool(TRUE))
           [] ans = "No" ->
                Run(<<Question, Cmd("newProject", NoPath)>>, RetBool(TRUE))
           [] OTHER ->
                IF saveRaises
                THEN Run(<<Question, Cmd("saveProject", file_path)>>, RetRaise)
                ELSE Run(<<Question, Cmd("saveProject", file_path),
                           Cmd("newProject", NoPath)>>, RetBool(TRUE))

\* operation == "reset": the same prompt, then newProject() and True
Reset(h, file_path, ans, saveRaises) ==
    IF h.upToDate THEN Run(<<Cmd("newProject", NoPath)>>, RetBool(TRUE))
    ELSE CASE ans = "Cancel" -> Run(<<Question>>, RetBool(FALSE))
           [] ans = "No" ->
                Run(<<Question, Cmd("newProject", NoPath)>>, RetBool(TRUE))
           [] OTHER ->
                IF saveRaises
                THEN Run(<<Question, Cmd("saveProject", file_path)>>, RetRaise)
                ELSE Run(<<Question, Cmd("saveProject", file_path),
                           Cmd("newProject", NoPath)>>, RetBool(TRUE))

\* no branch of the switch matches: the function falls off its end
Other(h) == Run(<<>>, RetNone)

\* the effect of one execute() call on the host and on the record of the call
Execute(op, file_path, r, ans) ==
    /\ sOp' = op
    /\ sAns' = Asked(r.cmds, ans)
    /\ sArg' = file_path
    /\ sRet' = r.ret
    /\ sCalls' = HostTrace(HostState, r.cmds)
    /\ sPre' = HostState
    /\ UNCHANGED <<pubVars, engineVars>>
    /\ LET h == HostRun(HostState, r.cmds) IN
         /\ projectPath' = h.projectPath
         /\ upToDate' = h.upToDate
         /\ files' = h.files
         /\ dirs' = h.dirs
         /\ registered' = h.registered

\* the host rejects saveProject(None) with an exception, or ignores it
SaveRaisesChoices(h, file_path, ans) ==
    IF ~h.upToDate /\ ans = "Yes" /\ file_path = NoPath THEN BOOLEAN ELSE {FALSE}

ExecuteCurrentPath ==
    \E fp \in ScenePaths \cup {NoPath} :
        Execute("current_path", fp, CurrentPath(HostState, fp), "")

ExecuteOpen ==
    \E fp \in ScenePaths, answers \in [1..MaxDialogs -> Answers] :
        Execute("open", fp, Open(HostState, fp, answers, FALSE), answers[1])

ExecuteSave ==
    \E fp \in ScenePaths : Execute("save", fp, Save(HostState, fp), "")

ExecuteSaveAs ==
    \E fp \in ScenePaths : Execute("save_as", fp, SaveAs(HostState, fp), "")

ExecutePrepareNew ==
    \E fp \in ScenePaths \cup {NoPath} :
        Execute("prepare_new", fp, PrepareNew(HostState), "")

ExecuteReset ==
    \E fp \in ScenePaths \cup {NoPath}, ans \in Answers :
        \E raises \in SaveRaisesChoices(HostState, fp, ans) :
            Execute("reset", fp, Reset(HostState, fp, ans, raises), ans)

ExecuteOther ==
    \E fp \in ScenePaths \cup {NoPath} :
        Execute("version_up", fp, Other(HostState), "")

\* the artist changes the project in the host: it is no longer up to date
UserEdit ==
    /\ upToDate
    /\ upToDate' = FALSE
    /\ UNCHANGED <<projectPath, files, dirs, registered, sceneVars, pubVars,
                   engineVars>>

(***************************************************************************)
(* File names, as the platform and the plugin read them.                   *)
(***************************************************************************)
\* width of str(publish_version).zfill(3)
ZFill == 3

\* The platform's version pattern (.*)([._-])v(\d+)\.?([^.]+)?$ : the
\* version is in the last piece of the name, or in the one before a single
\* extension; a piece that is nothing but the version needs a piece before
\* it.  0: the name carries no version.
VersionIndex(n) ==
    LET ok(i) == /\ i >= 1
                 /\ n[i].pad > 0
                 /\ (n[i].s = "" => i >= 2)
    IN  IF Len(n) >= 1 /\ ok(Len(n)) THEN Len(n)
        ELSE IF Len(n) >= 2 /\ ok(Len(n) - 1) THEN Len(n) - 1
        ELSE 0

HasVersion(p) == VersionIndex(p.name) > 0

\* publisher.util.get_version_number(path); 0 for None
VersionNumber(p) ==
    IF HasVersion(p) THEN p.name[VersionIndex(p.name)].v ELSE 0

\* self._get_next_version_info(path, item): (next_version_path, version),
\* the same name with the version raised by one; (None, None) without one
NextVersionInfo(p) ==
    IF p = NoPath \/ ~HasVersion(p) THEN [path |-> NoPath, version |-> 0]
    ELSE LET i == VersionIndex(p.name) IN
         [path |-> MkPath(p.dir, [p.name EXCEPT ![i].v = p.name[i].v + 1]),
          version |-> p.name[i].v + 1]

\* self.get_publish_name(settings, item): the file name without its version
\* (prefix + "." + extension), or the file name itself when it has none
PublishName(p) ==
    LET n == p.name
        i == VersionIndex(n)
    IN  IF i = 0 THEN n
        ELSE SubSeq(n, 1, i - 1)
             \o (IF n[i].s = "" THEN <<>> ELSE <<Plain(n[i].s)>>)
             \o SubSeq(n, i + 1, Len(n))

\* self.get_publish_version(settings, item): the version of the path, or 1
PublishVersion(p) == IF HasVersion(p) THEN VersionNumber(p) ELSE 1

\* os.path.splitext(name)[0]
SplitExt(n) == IF Len(n) >= 2 THEN SubSeq(n, 1, Len(n) - 1) ELSE n

\* publish_name + "_v" + str(publish_version).zfill(3) + ".mel"
PublishFileName(publish_name, version) ==
    LET k == Len(publish_name) IN
    [publish_name EXCEPT ![k] = VerPiece(publish_name[k].s, "_", version, ZFill)]
    \o <<Plain("mel")>>

\* self.get_SpecificTemplatePublishPath(path, version, "3de4_shot_mel_export"):
\* the folder the template gives for this version
SpecificTemplatePublishPath(p, version) == Dir("publish", version)

\* processFileClean: extractNm = "." + path.rsplit('.', 2)[1], and
\* path.replace(extractNm, "") drops every piece that reads extractNm
CleanFileName(n) ==
    LET x == IF Len(n) >= 3 THEN n[Len(n) - 1] ELSE n[Len(n)]
        keep(i) == i = 1 \/ n[i] # x
        RECURSIVE Pick(_)
        Pick(i) == IF i > Len(n) THEN <<>>
                   ELSE (IF keep(i) THEN <<n[i]>> ELSE <<>>) \o Pick(i + 1)
    IN  Pick(1)

(***************************************************************************)
(* Tde4ExportMelPublishPlugin (exportMel.py): one item through the         *)
(* platform's validate -> publish -> finalize.                             *)
(*   pPhase    idle | validated | published | finalized | failed           *)
(*   pHook     the hook or button callback that ran last                   *)
(*   pRaised   the message of the exception it raised, "" if none          *)
(*   pRet      what it returned: True | False | None | Raise               *)
(*   pLog      the records it logged                                       *)
(*   pBase     whether it reached the base class's validate                *)
(*   pCalls    the host, OS and platform calls it made, in order           *)
(*   pPre      the host state it was called in                             *)
(*   pSaveArg  the path it handed to _save_session, NoPath if it did not   *)
(*   itemPath  item.properties["path"]                                     *)
(*   button    the path bound in the "Save to v<N>" callback on offer      *)
(*   runs      validate calls so far                                       *)
(***************************************************************************)
\* validate calls one model run makes at most
MaxRuns == 2

\* a log record; label: the action button's label ("" without a button),
\* n: the version in a "Save to v<n>" label
LogRec(level, msg, label, n) ==
    [level |-> level, msg |-> msg, label |-> label, n |-> n]

\* _get_save_as_action(): the "Save As..." button
SaveAsAction == "Save As..."

PRun(cmds, raised, ret, log, base, btn, item, saveArg) ==
    [cmds |-> cmds, raised |-> raised, ret |-> ret, log |-> log,
     base |-> base, button |-> btn, item |-> item, saveArg |-> saveArg]

\* the work-template check of validate: it only logs
WorkTemplateLog(wt) ==
    CASE wt = "mismatch" ->
            <<LogRec("warning", "session does not match work template",
                     "Save File", 0)>>
      [] wt = "match" ->
            <<LogRec("debug", "work template matches", "", 0)>>
      [] OTHER -> <<LogRec("debug", "no work template", "", 0)>>

\* NextAvailable without its loop: the first candidate is taken as free
NextAvailableOnce(h, info) == info

RECURSIVE NextAvailable(_, _)
\* while os.path.exists(next_version_path): ask for the next one
NextAvailable(h, info) ==
    IF info.path \in h.files
    THEN NextAvailable(h, NextVersionInfo(info.path))
    ELSE info

\* Validate without the check that the session has a path: an unsaved
\* session goes on to the base class
ValidateUnsavedPasses(h, wt, baseOk) ==
    LET path == h.projectPath
        info == NextVersionInfo(path)
    IN  IF info.path # NoPath /\ info.path \in h.files
        THEN PRun(<<>>, "The next version of this file already exists on disk.",
                  "Raise",
                  WorkTemplateLog(wt) \o
                  <<LogRec("error",
                           "The next version of this file already exists on disk.",
                           "Save to v", info.version)>>,
                  FALSE, info.path, NoPath, NoPath)
        ELSE PRun(<<>>, "", IF baseOk THEN "True" ELSE "False",
                  WorkTemplateLog(wt), TRUE, NoPath, path, NoPath)

\* validate(settings, item).  wt: the item's work template (none, match,
\* mismatch); baseOk: what the base class's validate returns.
Validate(h, wt, baseOk) ==
    LET path == h.projectPath
        info == NextVersionInfo(path)
    IN  IF path = NoPath
        THEN PRun(<<>>, "The 3de4 session has not been saved.", "Raise",
                  <<LogRec("error", "The 3de4 session has not been saved.",
                           SaveAsAction, 0)>>,
                  FALSE, NoPath, NoPath, NoPath)
        ELSE IF info.path # NoPath /\ info.path \in h.files
        THEN LET free == NextAvailable(h, info) IN
             PRun(<<>>, "The next version of this file already exists on disk.",
                  "Raise",
                  WorkTemplateLog(wt) \o
                  <<LogRec("error",
                           "The next version of this file already exists on disk.",
                           "Save to v", free.version)>>,
                  FALSE, free.path, NoPath, NoPath)
        ELSE PRun(<<>>, "", IF baseOk THEN "True" ELSE "False",
                  WorkTemplateLog(wt), TRUE, NoPath, path, NoPath)

\* _save_session(path): ensure_folder_exists(os.path.dirname(path))
SaveSession(path) == <<Cmd("makedirs", path)>>

\* _export_mel(path): the exporter writes path + ".mel", or raises
ExportMel(path, exportOk) ==
    IF exportOk THEN <<Cmd("export", path)>> ELSE <<Cmd("exportRaise", path)>>

\* Publish with the exporter's exception swallowed: it returns normally
PublishSwallows(h, exportOk) ==
    LET path == h.projectPath IN
    PRun(<<Cmd("makedirs", path)>>
         \o (IF exportOk THEN <<Cmd("export", path)>>
                          ELSE <<Cmd("exportRaise", path)>>),
         "", "None", <<>>, FALSE, NoPath, path, path)

\* Publish that also registers the work file as a publish
PublishRegisters(h, exportOk) ==
    LET path == h.projectPath IN
    PRun(<<Cmd("makedirs", path)>>
         \o (IF exportOk THEN <<Cmd("export", path), Cmd("register", path)>>
                          ELSE <<Cmd("exportRaise", path)>>),
         IF exportOk THEN "" ELSE "Unable to export mel script",
         IF exportOk THEN "None" ELSE "Raise",
         <<>>, FALSE, NoPath, path, path)

\* publish(settings, item)
Publish(h, exportOk) ==
    LET path == h.projectPath IN
    PRun(SaveSession(path) \o ExportMel(path, exportOk),
         IF exportOk THEN "" ELSE "Unable to export mel script",
         IF exportOk THEN "None" ELSE "Raise",
         <<>>, FALSE, NoPath, path, path)

\* copyToExport and processFileClean: move the script into the folder, then
\* rename it without the work file's extension.  shutil.move into a folder
\* that already holds the name raises.
CopyToExport(h, MelExport_path, MelFilePath) ==
    LET moved == MkPath(MelExport_path, MelFilePath.name)
        clean == MkPath(MelExport_path, CleanFileName(MelFilePath.name))
    IN  IF moved \in h.files THEN <<Cmd2("moveRaise", MelFilePath, moved)>>
        ELSE <<Cmd2("move", MelFilePath, moved), Cmd2("move", moved, clean)>>

\* _copyToMelPath(s_path, melExpPath).  copyOk: ensure_folder_exists succeeds.
CopyToMelPath(h, s_path, melExpPath, copyOk) ==
    LET melFilePath == AddExt(s_path, "mel") IN
    IF ~copyOk THEN <<Cmd("makedirsRaise", MkPath(melExpPath, <<>>))>>
    ELSE <<Cmd("makedirs", MkPath(melExpPath, <<>>))>>
         \o (IF melFilePath \in h.files
             THEN CopyToExport(h, melExpPath, melFilePath) ELSE <<>>)

Raises(cmds) == \E i \in 1..Len(cmds) : cmds[i].call \in RaisingCalls

\* Finalize with the copy's exception swallowed: it goes on to register
FinalizeCopyIgnored(h, copyOk, regOk) ==
    LET path == h.projectPath
        publish_version == PublishVersion(path)
        publish_fl_name == PublishFileName(SplitExt(PublishName(path)),
                                           publish_version)
        Mpublish_path == SpecificTemplatePublishPath(path, publish_version)
        publishedMelPath == MkPath(Mpublish_path, publish_fl_name)
        copy == CopyToMelPath(h, path, Mpublish_path, copyOk)
    IN  IF ~regOk
        THEN PRun(copy \o <<Cmd("registerRaise", publishedMelPath)>>,
                  "Unable to publish mel script", "Raise",
                  <<>>, FALSE, NoPath, path, NoPath)
        ELSE PRun(copy \o <<Cmd("register", publishedMelPath)>>,
                  "", "None", <<>>, FALSE, NoPath, path, NoPath)

\* finalize(settings, item).  regOk: register_publish succeeds.
Finalize(h, copyOk, regOk) ==
    LET path == h.projectPath
        publish_version == PublishVersion(path)
        publish_name == SplitExt(PublishName(path))
        publish_fl_name == PublishFileName(publish_name, publish_version)
        Mpublish_path == SpecificTemplatePublishPath(path, publish_version)
        publishedMelPath == MkPath(Mpublish_path, publish_fl_name)
        copy == CopyToMelPath(h, path, Mpublish_path, copyOk)
    IN  IF Raises(copy)
        THEN PRun(copy, "Unable to export mel script", "Raise",
                  <<>>, FALSE, NoPath, path, NoPath)
        ELSE IF ~regOk
        THEN PRun(copy \o <<Cmd("registerRaise", publishedMelPath)>>,
                  "Unable to publish mel script", "Raise",
                  <<>>, FALSE, NoPath, path, NoPath)
        ELSE PRun(copy \o <<Cmd("register", publishedMelPath)>>,
                  "", "None", <<>>, FALSE, NoPath, path, NoPath)

\* how many calls of trace go by one of the names
CountCalls(trace, names) ==
    Len(SelectSeq(trace, LAMBDA e : e.call \in names))

\* what the history of a run keeps of one phase: how it ended, whether the
\* exporter returned, the register_publish calls and the shutil.move calls
HistEntry(name, r, trace) ==
    [hook |-> name,
     ret |-> r.ret,
     exported |-> \E i \in 1..Len(trace) :
                     trace[i].call = "export" /\ trace[i].ok,
     regs |-> CountCalls(trace, {"register", "registerRaise"}),
     moves |-> CountCalls(trace, {"move", "moveRaise"})]

\* the effect of one hook call on the host and on the record of the call
Hook(name, r, phase) ==
    /\ runHist' =
         CASE name = "validate" ->
                <<HistEntry(name, r, HostTrace(HostState, r.cmds))>>
           [] name \in {"publish", "finalize"} ->
                Append(runHist, HistEntry(name, r, HostTrace(HostState, r.cmds)))
           [] OTHER -> runHist
    /\ UNCHANGED <<accVars, engineVars>>
    /\ pHook' = name
    /\ pRaised' = r.raised
    /\ pRet' = r.ret
    /\ pLog' = r.log
    /\ pBase' = r.base
    /\ pCalls' = HostTrace(HostState, r.cmds)
    /\ pPre' = HostState
    /\ pSaveArg' = r.saveArg
    /\ itemPath' = IF r.item = NoPath THEN itemPath ELSE r.item
    /\ button' = r.button
    /\ pPhase' = phase
    /\ UNCHANGED sceneVars
    /\ LET h == HostRun(HostState, r.cmds) IN
         /\ projectPath' = h.projectPath
         /\ upToDate' = h.upToDate
         /\ files' = h.files
         /\ dirs' = h.dirs
         /\ registered' = h.registered

\* the platform validates the item: a new run starts
DoValidate ==
    /\ runs < MaxRuns
    /\ runs' = runs + 1
    /\ \E wt \in {"none", "match", "mismatch"}, baseOk \in BOOLEAN :
         LET r == Validate(HostState, wt, baseOk) IN
         Hook("validate", r, IF r.ret = "True" THEN "validated" ELSE "failed")

\* the platform publishes the item it validated
DoPublish ==
    /\ pPhase = "validated"
    /\ UNCHANGED runs
    /\ \E exportOk \in BOOLEAN :
         LET r == Publish(HostState, exportOk) IN
         Hook("publish", r, IF r.raised = "" THEN "published" ELSE "failed")

\* the platform finalizes the item it published
DoFinalize ==
    /\ pPhase = "published"
    /\ UNCHANGED runs
    /\ \E copyOk \in BOOLEAN, regOk \in BOOLEAN :
         LET r == Finalize(HostState, copyOk, regOk) IN
         Hook("finalize", r, IF r.raised = "" THEN "finalized" ELSE "failed")

\* Accept that turns an unsaved session away
AcceptRejectsUnsaved(h, template, allowed) ==
    [ret |-> [accepted |-> h.projectPath # NoPath, checked |-> TRUE,
              visible |-> TRUE],
     allowed |-> IF template THEN FALSE ELSE allowed,
     log |-> (IF h.projectPath = NoPath
              THEN <<LogRec("warning", "The mel session has not been saved.",
                            SaveAsAction, 0)>>
              ELSE <<>>)
             \o <<LogRec("info", "plugin accepted the current mel session.",
                         "", 0)>>]

\* accept(settings, item).  template: settings["Publish Template"].value is
\* truthy; allowed: item.context_change_allowed before the call.
Accept(h, template, allowed) ==
    [ret |-> [accepted |-> TRUE, checked |-> TRUE, visible |-> TRUE],
     allowed |-> IF template THEN FALSE ELSE allowed,
     log |-> (IF h.projectPath = NoPath
              THEN <<LogRec("warning", "The mel session has not been saved.",
                            SaveAsAction, 0)>>
              ELSE <<>>)
             \o <<LogRec("info", "plugin accepted the current mel session.",
                         "", 0)>>]

\* the publisher presents the item to accept
DoAccept ==
    \E template \in BOOLEAN :
        LET r == Accept(HostState, template, contextChangeAllowed) IN
        /\ accRet' = r.ret
        /\ accTemplate' = template
        /\ accPreAllowed' = contextChangeAllowed
        /\ contextChangeAllowed' = r.allowed
        /\ pHook' = "accept"
        /\ pRaised' = ""
        /\ pRet' = "Dict"
        /\ pLog' = r.log
        /\ pBase' = FALSE
        /\ pCalls' = <<>>
        /\ pPre' = HostState
        /\ pSaveArg' = NoPath
        /\ UNCHANGED <<pPhase, itemPath, button, runs, runHist, hostVars,
                       sceneVars, engineVars>>

\* the artist presses "Save to v<N>": lambda: _save_session(next_version_path)
ClickSaveToVersion ==
    /\ button # NoPath
    /\ UNCHANGED runs
    /\ Hook("save_to_version",
            PRun(SaveSession(button), "", "None", <<>>, FALSE, button, NoPath,
                 button),
            pPhase)

\* _save_as(): tde4.saveProject(tde4.getProjectPath())
SaveAsCallback(h) == <<Cmd("saveProject", h.projectPath)>>

\* the artist presses "Save As..."
ClickSaveAs ==
    /\ \E i \in 1..Len(pLog) : pLog[i].label = SaveAsAction
    /\ UNCHANGED runs
    /\ Hook("save_as",
            PRun(SaveAsCallback(HostState), "", "None", <<>>, FALSE, NoPath,
                 NoPath, NoPath),
            pPhase)

(***************************************************************************)
(* TDE4Engine (engine.py).                                                 *)
(*   eOp, eIn    the method last called and its inputs                     *)
(*   eRet        how it ended: "None" or "Raise"                           *)
(*   eMenuRet    what its call of create_shotgun_menu returned, "" if it   *)
(*               made none                                                 *)
(*   eCalls      the calls it made to the platform, the host and the OS    *)
(*   eOut        the lines it printed                                      *)
(*   eDirs, eFiles  the folders and files of the disk the engine cleans    *)
(*   ePre        eDirs and eFiles when the method was called               *)
(*   menuDirEnv  os.environ["TK_3DE4_MENU_DIR"], <<>> when it is not set   *)
(***************************************************************************)
\* the inputs of a method that takes none
NoInput ==
    [levelno |-> 0, global_debug |-> FALSE, msg |-> "", system |-> "",
     paths |-> <<>>, fails |-> {}]

\* one call of the engine: its name, its arguments, whether it returned
ECall(c, a, ok) == [call |-> c, arg |-> a, ok |-> ok]

\* has_ui with the value False
HasUiFalse == FALSE

\* has_ui: return True
HasUi == TRUE

\* create_shotgun_menu(): two register_command calls, the menu generator,
\* the host's rescan
CreateShotgunMenu ==
    IF HasUi
    THEN Run(<<ECall("register_command", <<"Jump to Shotgun">>, TRUE),
               ECall("register_command", <<"Jump to File System">>, TRUE),
               ECall("create_menu", <<>>, TRUE),
               ECall("rescanPythonDirs", <<>>, TRUE)>>, "True")
    ELSE Run(<<>>, "False")

\* the effect of one engine method that leaves the disk alone
EngineCall(op, in, calls, out, ret, menuRet) ==
    /\ eOp' = op
    /\ eIn' = in
    /\ eCalls' = calls
    /\ eOut' = out
    /\ eRet' = ret
    /\ eMenuRet' = menuRet
    /\ ePre' = [dirs |-> eDirs, files |-> eFiles]
    /\ UNCHANGED <<eDirs, eFiles, menuDirEnv, hostVars, sceneVars, pubVars>>

\* post_app_init(): self.create_shotgun_menu()
PostAppInit ==
    LET r == CreateShotgunMenu IN
    EngineCall("post_app_init", NoInput, r.cmds, <<>>, "None", r.ret)

\* post_context_change(old_context, new_context): self.create_shotgun_menu()
PostContextChange ==
    LET r == CreateShotgunMenu IN
    EngineCall("post_context_change", NoInput, r.cmds, <<>>, "None", r.ret)

\* logging.INFO
INFO == 20

\* logging.DEBUG, INFO, WARNING, ERROR
Levels == {10, 20, 30, 40}

Messages == {"m1", "m2"}

\* handler.format(record): the handler's rendering of the record's message
HandlerFormat(msg) == <<"formatted", msg>>

\* the line print(msg, handler.format(record)) writes: the time, then the
\* formatted record
Line(text) == [stamp |-> "now", text |-> text]

\* _emit_log_message that prints every record it is handed
EmitLogMessageAll(levelno, global_debug, msg) ==
    <<Line(HandlerFormat(msg))>>

\* _emit_log_message(handler, record)
EmitLogMessage(levelno, global_debug, msg) ==
    LET log_debug == levelno < INFO /\ global_debug
        log_info_above == levelno >= INFO
    IN  IF log_debug \/ log_info_above
        THEN <<Line(HandlerFormat(msg))>>
        ELSE <<>>

\* the platform hands the engine a log record
DoEmitLogMessage ==
    \E levelno \in Levels, global_debug \in BOOLEAN, msg \in Messages :
        EngineCall("_emit_log_message",
                   [NoInput EXCEPT !.levelno = levelno,
                                   !.global_debug = global_debug,
                                   !.msg = msg],
                   <<>>, EmitLogMessage(levelno, global_debug, msg), "None", "")

\* longest list of self.context.filesystem_locations
MaxLocations == 2

Locations == {"loc1", "loc2"}

Systems == {"linux2", "linux", "darwin", "win32", "freebsd"}

\* cmd for sys.platform, <<>> where the method raises instead
PlatformCmd(system) ==
    CASE system \in {"linux2", "linux"} -> <<"xdg-open">>
      [] system = "darwin" -> <<"open">>
      [] system = "win32" -> <<"cmd.exe", "/C", "start", "Folder">>
      [] OTHER -> <<>>

RECURSIVE LaunchStopsOnFailure(_, _, _)
\* Launch that gives up at the first location that fails
LaunchStopsOnFailure(cmd, paths, fails) ==
    IF paths = <<>> THEN <<>>
    ELSE LET args == cmd \o <<Head(paths)>> IN
         IF Head(paths) \in fails
         THEN <<ECall("check_call", args, FALSE),
                ECall("logger.exception", args, TRUE)>>
         ELSE <<ECall("check_call", args, TRUE)>>
              \o LaunchStopsOnFailure(cmd, Tail(paths), fails)

RECURSIVE Launch(_, _, _)
\* for disk_location in paths: subprocess.check_call(cmd + [disk_location]),
\* an exception of it logged.  fails: the locations whose launch raises.
Launch(cmd, paths, fails) ==
    IF paths = <<>> THEN <<>>
    ELSE LET args == cmd \o <<Head(paths)>> IN
         (IF Head(paths) \in fails
          THEN <<ECall("check_call", args, FALSE),
                 ECall("logger.exception", args, TRUE)>>
          ELSE <<ECall("check_call", args, TRUE)>>)
         \o Launch(cmd, Tail(paths), fails)

\* _jump_to_filesystem()
JumpToFilesystem(paths, system, fails) ==
    IF PlatformCmd(system) = <<>> THEN Run(<<>>, "Raise")
    ELSE Run(Launch(PlatformCmd(system), paths, fails), "None")

LocationLists == UNION {[1..n -> Locations] : n \in 0..MaxLocations}

\* the artist picks "Jump to File System"
DoJumpToFilesystem ==
    \E paths \in LocationLists, system \in Systems, fails \in SUBSET Locations :
        LET r == JumpToFilesystem(paths, system, fails) IN
        EngineCall("_jump_to_filesystem",
                   [NoInput EXCEPT !.system = system, !.paths = paths,
                                   !.fails = fails],
                   r.cmds, <<>>, r.ret, "")

\* d is p or a folder above p
IsPrefix(d, p) == Len(d) <= Len(p) /\ SubSeq(p, 1, Len(d)) = d

Parent(p) == SubSeq(p, 1, Len(p) - 1)

MenuDir == <<"tmp", "menu">>

\* the folders and files the engine's disk can hold
EngineDirs == {<<"tmp">>, MenuDir, MenuDir \o <<"scripts">>, <<"tmp", "other">>}

EngineFiles ==
    {MenuDir, MenuDir \o <<"a.py">>, MenuDir \o <<"scripts">> \o <<"b.py">>,
     <<"tmp", "other">> \o <<"c.py">>}

\* the disk is a tree: what is on it lies in a folder that is on it
DiskOk(ds, fs) ==
    /\ ds \cap fs = {}
    /\ \A p \in ds \cup fs : Len(p) > 1 => Parent(p) \in ds

\* what shutil.rmtree(d) can leave behind: nothing when it returns, d and
\* some of its tree when it raises
RmtreeLeft(d, ds, fs) ==
    {left \in SUBSET {p \in ds \cup fs : IsPrefix(d, p)} :
        \/ left = {}
        \/ d \in left /\ \A p \in left \ {d} : Parent(p) \in left}

CleanupResult(ds, fs, cmds, ret) ==
    [dirs |-> ds, files |-> fs, cmds |-> cmds, ret |-> ret]

\* _cleanup_folders that removes the folder above the one it is given
CleanupFoldersParent(ds, fs, env, left) ==
    IF env = <<>> THEN CleanupResult(ds, fs, <<>>, "Raise")
    ELSE IF env \in ds
    THEN CleanupResult({p \in ds : ~IsPrefix(Parent(env), p)},
                       {p \in fs : ~IsPrefix(Parent(env), p)},
                       <<ECall("rmtree", Parent(env), TRUE)>>, "None")
    ELSE CleanupResult(ds, fs, <<>>, "None")

\* _cleanup_folders(): os.environ["TK_3DE4_MENU_DIR"] raises KeyError when
\* the variable is not set; shutil.rmtree runs when the path is a folder.
\* left: what the rmtree leaves behind.
CleanupFolders(ds, fs, env, left) ==
    IF env = <<>> THEN CleanupResult(ds, fs, <<>>, "Raise")
    ELSE IF env \in ds
    THEN CleanupResult({p \in ds : ~IsPrefix(env, p) \/ p \in left},
                       {p \in fs : ~IsPrefix(env, p) \/ p \in left},
                       <<ECall("rmtree", env, left = {})>>,
                       IF left = {} THEN "None" ELSE "Raise")
    ELSE CleanupResult(ds, fs, <<>>, "None")

\* destroy_engine(): a debug log line, then self._cleanup_folders()
DestroyEngine ==
    \E left \in RmtreeLeft(menuDirEnv, eDirs, eFiles) :
        LET r == CleanupFolders(eDirs, eFiles, menuDirEnv, left) IN
        /\ eOp' = "destroy_engine"
        /\ eIn' = NoInput
        /\ eCalls' = <<ECall("logger.debug", <<"Destroying...">>, TRUE)>>
                     \o r.cmds
        /\ eOut' = <<>>
        /\ eRet' = r.ret
        /\ eMenuRet' = ""
        /\ ePre' = [dirs |-> eDirs, files |-> eFiles]
        /\ eDirs' = r.dirs
        /\ eFiles' = r.files
        /\ UNCHANGED <<menuDirEnv, hostVars, sceneVars, pubVars>>

\* the publisher and the scene operations run with the engine's disk empty
NoEngineFiles ==
    /\ eDirs = {}
    /\ eFiles = {}
    /\ menuDirEnv = <<>>

(***************************************************************************)
(* Specifications.                                                         *)
(***************************************************************************)
vars == <<hostVars, sceneVars, pubVars, engineVars>>

SceneIdle ==
    /\ sOp = "none"
    /\ sArg = NoPath
    /\ sRet = RetNone
    /\ sCalls = <<>>
    /\ sPre = HostState
    /\ sAns = ""

PubIdle ==
    /\ pPhase = "idle"
    /\ pHook = "none"
    /\ pRaised = ""
    /\ pRet = "None"
    /\ pLog = <<>>
    /\ pBase = FALSE
    /\ pCalls = <<>>
    /\ pPre = HostState
    /\ pSaveArg = NoPath
    /\ itemPath = NoPath
    /\ button = NoPath
    /\ runs = 0
    /\ accRet = [accepted |-> FALSE, checked |-> FALSE, visible |-> FALSE]
    /\ accTemplate = FALSE
    /\ accPreAllowed = TRUE
    /\ contextChangeAllowed = TRUE
    /\ runHist = <<>>

\* the engine has not been called
EngineIdle ==
    /\ eOp = "none"
    /\ eRet = "None"
    /\ eMenuRet = ""
    /\ eCalls = <<>>
    /\ eOut = <<>>
    /\ eIn = NoInput
    /\ ePre = [dirs |-> eDirs, files |-> eFiles]

\* the scene operations start in a host with some work files on disk and the
\* project unsaved or saved as one of them
InitScene ==
    /\ dirs = {WorkDir}
    /\ files \in SUBSET {p \in ScenePaths : p.dir = WorkDir}
    /\ projectPath \in {NoPath} \cup files
    /\ upToDate \in BOOLEAN
    /\ registered = {}
    /\ SceneIdle
    /\ PubIdle
    /\ NoEngineFiles
    /\ EngineIdle

NextScene ==
    \/ ExecuteCurrentPath
    \/ ExecuteOpen
    \/ ExecuteSave
    \/ ExecuteSaveAs
    \/ ExecutePrepareNew
    \/ ExecuteReset
    \/ ExecuteOther
    \/ UserEdit

SpecScene == InitScene /\ [][NextScene]_vars

\* the work file names of one naming style: versions written after "." or
\* "_", with 2 or 3 digits, or no version at all
WorkName(sep, v, pad) ==
    CASE sep = "." -> <<Plain("shot"), VerPiece("", "", v, pad), Plain("3de")>>
      [] sep = "_" -> <<VerPiece("shot", "_", v, pad), Plain("3de")>>
      [] OTHER -> <<Plain("shot"), Plain("3de")>>

Styles == {<<".", 3>>, <<"_", 3>>, <<"_", 2>>, <<"", 0>>}

WorkFiles(st) ==
    IF st[1] = "" THEN {MkPath(WorkDir, WorkName("", 0, 0))}
    ELSE {MkPath(WorkDir, WorkName(st[1], v, st[2])) : v \in 1..MaxVersion}

\* the publisher starts in a host whose project is unsaved or saved as one of
\* the work files on disk
InitPublish ==
    /\ dirs = {WorkDir}
    /\ \E st \in Styles : files \in SUBSET WorkFiles(st)
    /\ projectPath \in {NoPath} \cup files
    /\ upToDate \in BOOLEAN
    /\ registered = {}
    /\ SceneIdle
    /\ PubIdle
    /\ NoEngineFiles
    /\ EngineIdle

NextPublish ==
    \/ DoAccept
    \/ DoValidate
    \/ DoPublish
    \/ DoFinalize
    \/ ClickSaveToVersion
    \/ ClickSaveAs
    \/ UserEdit

SpecPublish == InitPublish /\ [][NextPublish]_vars

\* the engine starts with some tree on its disk and the variable naming
\* the menu folder, or not set
InitEngine ==
    /\ dirs = {WorkDir}
    /\ files = {}
    /\ projectPath = NoPath
    /\ upToDate = TRUE
    /\ registered = {}
    /\ SceneIdle
    /\ PubIdle
    /\ menuDirEnv \in {<<>>, MenuDir}
    /\ eDirs \in SUBSET EngineDirs
    /\ eFiles \in SUBSET EngineFiles
    /\ DiskOk(eDirs, eFiles)
    /\ EngineIdle

NextEngine ==
    \/ PostAppInit
    \/ PostContextChange
    \/ DestroyEngine
    \/ DoEmitLogMessage
    \/ DoJumpToFilesystem

SpecEngine == InitEngine /\ [][NextEngine]_vars

(***************************************************************************)
(* The scene operations' claims, checked under SpecScene.                  *)
(***************************************************************************)
\* the calls of the last execute() that went to the host's project API
HostCalls ==
    SelectSeq(sCalls, LAMBDA e :
                e.call \in {"saveProject", "loadProject", "newProject"})

Called(c, p) == \E i \in 1..Len(sCalls) : sCalls[i].call = c /\ sCalls[i].arg = p

\* the save prompt was shown and answered Cancel
Cancelled == ~sPre.upToDate /\ sAns = "Cancel"

\* C7: execute('save' | 'save_as', file_path) makes exactly one host call,
\* saveProject(file_path), issued when the parent directory of file_path
\* exists: os.makedirs creates it first exactly when it was missing.  No
\* loadProject or newProject call is made.
C7_SaveDelegates ==
    sOp \in {"save", "save_as"} =>
        /\ HostCalls = <<[call |-> "saveProject", arg |-> sArg, to |-> NoPath,
                          ok |-> TRUE]>>
        /\ sCalls[Len(sCalls)].call = "saveProject"
        /\ (DirName(sArg) \notin sPre.dirs) <=> Called("makedirs", sArg)
        /\ DirName(sArg) \in dirs
        /\ projectPath = sArg /\ sArg \in files

\* a save_as into a folder that did not exist
C7_Witness ==
    /\ sOp = "save_as"
    /\ DirName(sArg) \notin sPre.dirs
    /\ Len(sCalls) = 2

\* C8 as stated: every execute('open', file_path) calls loadProject(file_path)
\* and every execute('reset') calls newProject(), whatever the dirty state
\* and the dialog answer.
C8_Unconditional ==
    /\ sOp = "open" => Called("loadProject", sArg)
    /\ sOp = "reset" => Called("newProject", NoPath)

\* C8 amended: execute('open', file_path) calls loadProject(file_path), and
\* execute('reset') calls newProject(), exactly when the operation is not
\* stopped by its save prompt: with unsaved changes a question is asked
\* first, and on Cancel (or when the prompted save leaves by an exception)
\* the operation ends without the load / new call.
C8_DelegatesUnlessCancelled ==
    /\ sOp = "open" =>
         (Called("loadProject", sArg) <=> ~Cancelled /\ sRet.kind # "Raise")
    /\ sOp = "reset" =>
         (Called("newProject", NoPath) <=> ~Cancelled /\ sRet.kind # "Raise")
    /\ sOp \in {"open", "reset"} /\ Cancelled =>
         sRet = RetBool(FALSE) /\ HostCalls = <<>>

\* an open of a dirty project that the user cancels
C8_Witness == sOp = "open" /\ Cancelled /\ sRet = RetBool(FALSE)

\* C9: execute('reset') returns True if and only if newProject() was called
\* in that invocation, and a call that returns without it returns False.
C9_ResetReturn ==
    sOp = "reset" =>
        /\ sRet \in {RetBool(TRUE), RetBool(FALSE), RetRaise}
        /\ sRet = RetBool(TRUE) <=> Called("newProject", NoPath)
        /\ sRet = RetBool(FALSE) <=> Cancelled

\* both outcomes: a cancelled reset, which returned False
C9_Witness ==
    /\ sOp = "reset"
    /\ sRet = RetBool(FALSE)
    /\ sAns = "Cancel"
    /\ projectPath # NoPath

\* C10 as stated: execute('current_path', file_path) returns the path of the
\* project open in the host, for every file_path, and changes no state.
C10_CurrentPath ==
    sOp = "current_path" =>
        /\ sRet = RetPath(sPre.projectPath)
        /\ sCalls = <<>>

(***************************************************************************)
(* The publish plugin's claims, checked under SpecPublish.                 *)
(***************************************************************************)
\* the _export_mel calls of the last hook
Exports ==
    SelectSeq(pCalls, LAMBDA e : e.call \in {"export", "exportRaise"})

PCalled(c, q) == \E i \in 1..Len(pCalls) : pCalls[i].call = c /\ pCalls[i].arg = q

\* C1: publish calls _export_mel exactly once; when that call raises, publish
\* makes no further call and leaves by the exception "Unable to export mel
\* script".
C1_ExportFailurePropagates ==
    pHook = "publish" =>
        /\ Len(Exports) = 1
        /\ Exports[1].arg = pPre.projectPath
        /\ Exports[1].call = "exportRaise" =>
             /\ pRaised = "Unable to export mel script"
             /\ pRet = "Raise"
             /\ pCalls[Len(pCalls)] = Exports[1]
        /\ Exports[1].call = "export" => pRaised = "" /\ pRet = "None"

\* a publish whose export raised
C1_Witness ==
    /\ pHook = "publish"
    /\ Len(Exports) = 1
    /\ Exports[1].call = "exportRaise"
    /\ pRaised = "Unable to export mel script"

\* C2: validate of a session without a project path logs an error with the
\* "Save As..." button, raises, and does not reach the base class's validate.
C2_UnsavedFailsValidation ==
    pHook = "validate" /\ pPre.projectPath = NoPath =>
        /\ pRet = "Raise"
        /\ pRaised = "The 3de4 session has not been saved."
        /\ \E i \in 1..Len(pLog) :
             pLog[i].level = "error" /\ pLog[i].label = SaveAsAction
        /\ ~pBase
        /\ pPhase = "failed"

\* a validate call on an unsaved session
C2_Witness ==
    /\ pHook = "validate"
    /\ pPre.projectPath = NoPath
    /\ pRaised # ""

\* C3 as stated: after validate, publish and finalize have all passed for a
\* work file with a version number, the host project is saved at the path of
\* the next version.
C3_VersionBumped ==
    pPhase = "finalized" /\ HasVersion(itemPath) =>
        /\ projectPath = NextVersionInfo(itemPath).path
        /\ projectPath \in files

\* the path p with its version number set to k
WithVersion(p, k) ==
    MkPath(p.dir, [p.name EXCEPT ![VersionIndex(p.name)].v = k])

\* C4: when the next version of the work file exists on disk, validate
\* raises and offers "Save to v<N>", N being the lowest version above the
\* current one whose work file is not on disk; the callback is bound to
\* that file's path.
C4_NextAvailableVersion ==
    LET cur == pPre.projectPath IN
    (/\ pHook = "validate"
     /\ cur # NoPath
     /\ HasVersion(cur)
     /\ WithVersion(cur, VersionNumber(cur) + 1) \in pPre.files) =>
        /\ pRet = "Raise"
        /\ ~pBase
        /\ \E i \in 1..Len(pLog) :
             /\ pLog[i].level = "error"
             /\ pLog[i].label = "Save to v"
             /\ pLog[i].n > VersionNumber(cur)
             /\ WithVersion(cur, pLog[i].n) \notin pPre.files
             /\ \A k \in (VersionNumber(cur) + 1)..(pLog[i].n - 1) :
                  WithVersion(cur, k) \in pPre.files
             /\ button = WithVersion(cur, pLog[i].n)

\* the search went past more than one existing version
C4_Witness ==
    /\ pHook = "validate"
    /\ button # NoPath
    /\ VersionNumber(button) >= VersionNumber(pPre.projectPath) + 2

\* C5 as stated: when _save_session(path) has returned, the host project
\* has been saved at path through the host's saveProject call.
C5_SessionSaved ==
    pSaveArg # NoPath =>
        /\ PCalled("saveProject", pSaveArg)
        /\ pSaveArg \in files

\* C6 as stated: the path finalize registers names a file that exists in the
\* publish folder.
C6_RegisteredFileExists ==
    pHook = "finalize" =>
        \A i \in 1..Len(pCalls) :
            pCalls[i].call = "register" => pCalls[i].arg \in files

(***************************************************************************)
(* Further claims on the scene operations, checked under SpecScene.        *)
(***************************************************************************)
\* C11 as stated: every operation other than 'current_path' and 'reset'
\* (open, save, save_as, prepare_new, an unknown name) returns None on every
\* path through it.
C11_OthersReturnNone ==
    sOp \in {"open", "save", "save_as", "prepare_new", "version_up"} =>
        sRet = RetNone

\* the names of the calls of the last execute(), in order
CallNames == [i \in 1..Len(sCalls) |-> sCalls[i].call]

RegisterCalls ==
    {i \in 1..Len(pCalls) : pCalls[i].call \in {"register", "registerRaise"}}

\* the copy step of the last hook call raised
CopyRaised ==
    \E i \in 1..Len(pCalls) : pCalls[i].call \in {"makedirsRaise", "moveRaise"}

\* C15: accept returns accepted, checked and visible all True whether or not
\* the session has a path; an unsaved session adds one warning carrying the
\* "Save As..." action and a saved one adds none; it makes no host call;
\* item.context_change_allowed becomes False when the "Publish Template"
\* setting is truthy and keeps its value otherwise.
C15_AcceptAlways ==
    pHook = "accept" =>
        /\ accRet = [accepted |-> TRUE, checked |-> TRUE, visible |-> TRUE]
        /\ pRaised = ""
        /\ pCalls = <<>>
        /\ (pPre.projectPath = NoPath) <=>
               \E i \in 1..Len(pLog) :
                   pLog[i].level = "warning" /\ pLog[i].label = SaveAsAction
        /\ accTemplate => ~contextChangeAllowed
        /\ ~accTemplate => contextChangeAllowed = accPreAllowed

\* an unsaved session accepted with a publish template configured, on an
\* item that allowed context changes
C15_Witness ==
    /\ pHook = "accept"
    /\ pPre.projectPath = NoPath
    /\ accTemplate
    /\ accPreAllowed
    /\ accRet.accepted

\* C17: in finalize, register_publish is called at most once and only as
\* the last call, after the copy step's ensure_folder_exists and moves; when
\* the copy step raises, finalize raises "Unable to export mel script" and
\* makes no register_publish call; when register_publish raises, finalize
\* raises "Unable to publish mel script"; otherwise it returns None having
\* registered.
C17_CopyBeforeRegister ==
    pHook = "finalize" =>
        /\ Cardinality(RegisterCalls) <= 1
        /\ \A i \in RegisterCalls :
             /\ i = Len(pCalls)
             /\ i > 1
             /\ pCalls[1].call = "makedirs" /\ pCalls[1].ok
        /\ CopyRaised =>
             pRaised = "Unable to export mel script" /\ RegisterCalls = {}
        /\ (\E i \in RegisterCalls : pCalls[i].call = "registerRaise") =>
             pRaised = "Unable to publish mel script"
        /\ pRaised = "" <=>
             \E i \in RegisterCalls : pCalls[i].call = "register"
        /\ pRaised \in {"", "Unable to export mel script",
                        "Unable to publish mel script"}

\* a finalize whose copy step raised
C17_Witness ==
    /\ pHook = "finalize"
    /\ CopyRaised
    /\ pRaised = "Unable to export mel script"

RECURSIVE SumRegs(_)
SumRegs(hist) ==
    IF hist = <<>> THEN 0 ELSE Head(hist).regs + SumRegs(Tail(hist))

\* C19: in one run of the platform (validate, publish, finalize, each
\* started only when the one before it passed), register_publish is called
\* at most once; a phase that registers or moves a file into the publish
\* folder is the finalize phase, third in the run, after a validate that
\* returned True and a publish that returned with its exporter having
\* returned; a phase that raised or returned False is the last of its run.
C19_RegisteredOnceInFinalize ==
    /\ Len(runHist) <= 3
    /\ SumRegs(runHist) <= 1
    /\ \A i \in 1..Len(runHist) :
         /\ runHist[i].hook = <<"validate", "publish", "finalize">>[i]
         /\ runHist[i].ret \in {"Raise", "False"} => i = Len(runHist)
         /\ runHist[i].regs > 0 \/ runHist[i].moves > 0 =>
              /\ i = 3
              /\ runHist[1].ret = "True"
              /\ runHist[2].ret = "None"
              /\ runHist[2].exported

\* a run that went through its three phases, moved the script and
\* registered it
C19_Witness ==
    /\ Len(runHist) = 3
    /\ runHist[3].regs = 1
    /\ runHist[3].moves > 0
    /\ runHist[3].ret = "None"

(***************************************************************************)
(* The engine's claims, checked under SpecEngine.                          *)
(***************************************************************************)
\* what the last engine call took off the disk
Removed == (ePre.dirs \ eDirs) \cup (ePre.files \ eFiles)

\* C12: after destroy_engine returns, the folder named by TK_3DE4_MENU_DIR
\* is not on the disk; a call made when that folder is absent returns
\* without calling rmtree and removes nothing; no call, returning or not,
\* removes or creates anything outside the tree of that folder.
C12_CleanupOnlyMenuDir ==
    eOp = "destroy_engine" =>
        /\ eRet = "None" => menuDirEnv \notin eDirs
        /\ eRet = "None" =>
             \A p \in ePre.dirs \cup ePre.files :
                 IsPrefix(menuDirEnv, p) /\ menuDirEnv \in ePre.dirs =>
                     p \notin eDirs \cup eFiles
        /\ menuDirEnv # <<>> /\ menuDirEnv \notin ePre.dirs =>
             /\ eRet = "None"
             /\ Removed = {}
             /\ \A i \in 1..Len(eCalls) : eCalls[i].call # "rmtree"
        /\ \A p \in Removed : IsPrefix(menuDirEnv, p) /\ menuDirEnv # <<>>
        /\ eDirs \subseteq ePre.dirs
        /\ eFiles \subseteq ePre.files

\* a destroy_engine that removed the menu folder and what was in it, next
\* to another folder that is still there
C12_Witness ==
    /\ eOp = "destroy_engine"
    /\ eRet = "None"
    /\ MenuDir \o <<"scripts">> \in Removed
    /\ <<"tmp", "other">> \in eDirs
    /\ <<"tmp", "other", "c.py">> \in eFiles

\* C13 as stated: every record handed to _emit_log_message, at any level
\* and whatever the global debug flag, is printed exactly once as the
\* handler-formatted message.
C13_Passthrough ==
    eOp = "_emit_log_message" =>
        /\ Len(eOut) = 1
        /\ eOut[1].text = <<"formatted", eIn.msg>>

\* C13, amended: a record at INFO or above is printed exactly once; a
\* record below INFO is printed exactly once when the global debug flag is
\* set and not at all otherwise; a printed line is the time followed by the
\* handler-formatted message.
C13_DebugFiltered ==
    eOp = "_emit_log_message" =>
        /\ Len(eOut) <= 1
        /\ eIn.levelno >= 20 => Len(eOut) = 1
        /\ eIn.levelno < 20 => (Len(eOut) = 1 <=> eIn.global_debug)
        /\ \A i \in 1..Len(eOut) :
             eOut[i].stamp = "now" /\ eOut[i].text = <<"formatted", eIn.msg>>
        /\ eCalls = <<>>
        /\ eRet = "None"

\* a debug record handed over with the global debug flag off: nothing printed
C13_Witness ==
    /\ eOp = "_emit_log_message"
    /\ eIn.levelno = 10
    /\ ~eIn.global_debug
    /\ eOut = <<>>

\* C14: every post_app_init and post_context_change registers "Jump to
\* Shotgun", then "Jump to File System", then runs the menu generator, then
\* asks the host to rescan its Python directories, and its
\* create_shotgun_menu call returns True.
C14_MenuBuilt ==
    eOp \in {"post_app_init", "post_context_change"} =>
        /\ eCalls = <<[call |-> "register_command",
                       arg |-> <<"Jump to Shotgun">>, ok |-> TRUE],
                      [call |-> "register_command",
                       arg |-> <<"Jump to File System">>, ok |-> TRUE],
                      [call |-> "create_menu", arg |-> <<>>, ok |-> TRUE],
                      [call |-> "rescanPythonDirs", arg |-> <<>>, ok |-> TRUE]>>
        /\ eMenuRet = "True"
        /\ eRet = "None"

\* a context change that built the menu
C14_Witness ==
    /\ eOp = "post_context_change"
    /\ Len(eCalls) = 4
    /\ eMenuRet = "True"

\* the check_call calls of the last engine call
Launches == SelectSeq(eCalls, LAMBDA e : e.call = "check_call")

\* C18: on a supported platform _jump_to_filesystem makes one check_call
\* per filesystem location, in the order of the locations, each with the
\* platform's command followed by the location; a check_call that raises is
\* followed by one logger.exception call and then by the remaining
\* launches, and the method returns None; on any other platform it raises
\* having launched nothing.
C18_JumpLaunchesAll ==
    eOp = "_jump_to_filesystem" =>
        IF eIn.system \in {"linux2", "linux", "darwin", "win32"}
        THEN /\ eRet = "None"
             /\ Len(Launches) = Len(eIn.paths)
             /\ \A i \in 1..Len(Launches) :
                  /\ Launches[i].arg[Len(Launches[i].arg)] = eIn.paths[i]
                  /\ Launches[i].arg[1] \in {"xdg-open", "open", "cmd.exe"}
                  /\ Launches[i].ok <=> eIn.paths[i] \notin eIn.fails
             /\ \A i \in 1..Len(eCalls) :
                  /\ eCalls[i].call \in {"check_call", "logger.exception"}
                  /\ (eCalls[i].call = "check_call" /\ ~eCalls[i].ok) =>
                       /\ i < Len(eCalls)
                       /\ eCalls[i + 1].call = "logger.exception"
                       /\ eCalls[i + 1].arg = eCalls[i].arg
                  /\ eCalls[i].call = "logger.exception" =>
                       /\ i > 1
                       /\ eCalls[i - 1].call = "check_call"
                       /\ ~eCalls[i - 1].ok
        ELSE eRet = "Raise" /\ eCalls = <<>>

\* two locations, the first failing to launch, the second launched
C18_Witness ==
    /\ eOp = "_jump_to_filesystem"
    /\ Len(eIn.paths) = 2
    /\ eIn.paths[1] \in eIn.fails
    /\ eIn.paths[2] \notin eIn.fails
    /\ Len(Launches) = 2
    /\ Launches[2].ok
    /\ eRet = "None"

=============================================================================
